---- MODULE Spec2Model ----
(***************************************************************************)
(* AzureFS (src/azurefs.py): a FUSE filesystem over Azure blob storage.    *)
(*                                                                         *)
(* Strings are sequences of one-character strings, so that the path        *)
(* arithmetic of the code (count, find, rfind, slices) is computed and not *)
(* assumed.  FUSE dispatches the operations from several threads           *)
(* (mount_options['nothreads'] = False) and the class takes no lock, so a  *)
(* handler is a sequence of steps; a step ends where the handler blocks on *)
(* the remote store or on process management, or between two statements    *)
(* that store into the shared registry.  A Populator is a separate         *)
(* process running get_files_from_blob_service on a Manager dict.          *)
(***************************************************************************)
EXTENDS Integers, Sequences, FiniteSets, TLC

(***************************************************************************)
(* Bounds of the model.                                                    *)
(***************************************************************************)
MaxProcs == 2
RegCalls == 3
RetryCalls == 2
RetryFails == 5
NegCalls == 4
NegTicks == 1
NegFaults == 1
ListCalls == 3
DeepCalls == 2
IoCalls == 3
IoFaults == 1
WaitCalls == 2
WaitFails == 1
StatCalls == 3
PopCalls == 1
PopFails == 5

Threads == {1, 2}

(***************************************************************************)
(* Program constants.                                                      *)
(***************************************************************************)
NEG_TTL == 30
ATTEMPTS == 5
MIN_NAME == 3
MAX_NAME == 63

\* Python's None as the value of a reference, and the absence of the
\* 'process' key in a registry entry (entries built by
\* rebuild_container_list have no such key).
NoneRef == 0 - 1
NoKey == 0 - 2

(***************************************************************************)
(* Python string operations, on sequences of characters.                   *)
(***************************************************************************)
SEP == "/"

Count(s, ch) == Cardinality({i \in 1..Len(s) : s[i] = ch})

\* s.find(ch, start): lowest 0-based index >= start holding ch, or -1
Find(s, ch, start) ==
  LET hits == {i \in 0..(Len(s) - 1) : i >= start /\ s[i + 1] = ch}
  IN  IF hits = {} THEN 0 - 1 ELSE CHOOSE i \in hits : \A j \in hits : i <= j

\* s.rfind(ch, start): highest 0-based index >= start holding ch, or -1
RFind(s, ch, start) ==
  LET hits == {i \in 0..(Len(s) - 1) : i >= start /\ s[i + 1] = ch}
  IN  IF hits = {} THEN 0 - 1 ELSE CHOOSE i \in hits : \A j \in hits : i >= j

\* s[a:b] with 0 <= a, b clipped to the length
Slice(s, a, b) == SubSeq(s, a + 1, IF b > Len(s) THEN Len(s) ELSE b)

\* s[a:]
From(s, a) == SubSeq(s, a + 1, Len(s))

LowerChar(ch) == IF ch = "A" THEN "a" ELSE IF ch = "B" THEN "b" ELSE ch

Lower(s) == [i \in 1..Len(s) |-> LowerChar(s[i])]

\* s.count('--'): non-overlapping occurrences, scanned left to right
RECURSIVE CountDashes(_, _)
CountDashes(s, i) ==
  IF i + 1 > Len(s) THEN 0
  ELSE IF s[i] = "-" /\ s[i + 1] = "-" THEN 1 + CountDashes(s, i + 2)
  ELSE CountDashes(s, i + 1)

(***************************************************************************)
(* Path parsing.                                                           *)
(***************************************************************************)
\* _parse_path: <<dir, file>>; file = <<>> stands for None
ParsePath(path) ==
  IF Count(path, SEP) > 1
    THEN <<Slice(path, 0, RFind(path, SEP, 0)), From(path, RFind(path, SEP, 0) + 1)>>
    ELSE LET pos == RFind(path, SEP, 1)
         IN  IF pos = 0 - 1 THEN <<path, <<>>>> ELSE <<Slice(path, 0, pos), <<>>>>

ParseDir(path) == ParsePath(path)[1]

ParseLeaf(path) == ParsePath(path)[2]

\* parse_container: /abc/def/g --> abc
ParseContainer(path) ==
  LET base == From(path, 1)
  IN  IF Find(base, SEP, 0) > 0 - 1 THEN Slice(base, 0, Find(base, SEP, 0)) ELSE base

\* '/' + cname
CKey(cname) == <<SEP>> \o cname

\* path[path.find('/', 1) + 1:], the blob key of a path
BlobKey(path) == From(path, Find(path, SEP, 1) + 1)

(***************************************************************************)
(* The names and paths the operations are called with.                     *)
(***************************************************************************)
Root == <<SEP>>

Cabc == <<"a", "b", "c">>

Cxyz == <<"x", "y", "z">>

Kf == <<"f">>

Ksf == <<"s", SEP, "f">>

\* ".__refresh_cache__", the reserved leaf of create
RefreshLeaf ==
  <<".", "_", "_", "r", "e", "f", "r", "e", "s", "h", "_", "c", "a", "c", "h", "e", "_", "_">>

PathOf(cname, key) == CKey(cname) \o <<SEP>> \o key

LongName == [i \in 1..(MAX_NAME + 1) |-> "a"]

ContainerNames == {Cabc, Cxyz}

\* blob keys in the order the store lists them
KeyOrder == <<Kf, Ksf>>

BlobKeys == {KeyOrder[i] : i \in 1..Len(KeyOrder)}

BlobSizes == {0, 5}

PageSize == 1

\* the paths mkdir is called with
MkdirPaths ==
  {CKey(<<"a", "b">>), CKey(LongName), CKey(<<"a", "-", "-", "b">>),
   CKey(<<"A", "b", "c">>), CKey(Cxyz), PathOf(Cabc, Kf)}

\* The calls of a workload, as pairs of operation and path.
\* Registry and Populator: lookups of known and unknown containers, listing,
\* forced refresh, mkdir
RegLoad ==
  {<<"getattr", Root>>, <<"getattr", CKey(Cabc)>>, <<"getattr", CKey(Cxyz)>>,
   <<"readdir", Root>>, <<"readdir", CKey(Cabc)>>, <<"readdir", CKey(Cxyz)>>,
   <<"create", PathOf(Cabc, RefreshLeaf)>>}
    \cup {<<"mkdir", p>> : p \in MkdirPaths}

\* Negative cache: one file looked up and removed
NegLoad == {<<"getattr", PathOf(Cabc, Kf)>>, <<"unlink", PathOf(Cabc, Kf)>>}

\* Listing contents: one file created, removed and listed
ListLoad ==
  {<<"readdir", CKey(Cabc)>>, <<"create", PathOf(Cabc, Kf)>>,
   <<"unlink", PathOf(Cabc, Kf)>>}

\* Paths below the first level of a container
DeepLoad ==
  {<<"readdir", CKey(Cabc)>>, <<"getattr", PathOf(Cabc, Ksf)>>,
   <<"create", PathOf(Cabc, Ksf)>>, <<"open", PathOf(Cabc, Ksf)>>}

\* File handles and file contents
IoLoad ==
  {<<"write", PathOf(Cabc, Kf)>>, <<"read", PathOf(Cabc, Kf)>>,
   <<"read", PathOf(Cxyz, Kf)>>, <<"create", PathOf(Cabc, Kf)>>,
   <<"open", PathOf(Cabc, Kf)>>}

\* Calls made while a Populator runs
WaitLoad ==
  {<<"getattr", PathOf(Cabc, Kf)>>, <<"readdir", CKey(Cabc)>>,
   <<"create", PathOf(Cabc, Kf)>>, <<"unlink", PathOf(Cabc, Kf)>>,
   <<"open", PathOf(Cabc, Kf)>>}

\* stat of containers, in and out of the registry, and a listing
StatLoad ==
  {<<"getattr", CKey(Cabc)>>, <<"getattr", CKey(Cxyz)>>, <<"readdir", CKey(Cabc)>>}

\* Populator retries: listing and forced refresh of one container
RetryLoad == {<<"readdir", CKey(Cabc)>>, <<"create", PathOf(Cabc, RefreshLeaf)>>}

(***************************************************************************)
(* State.                                                                  *)
(***************************************************************************)
VARIABLES
  containers,  \* self.containers: key -> [files, process]
  gen,         \* identity of the dict self.containers is bound to
  procs,       \* the Populator processes started so far
  mdict,       \* mdict[p]: the Manager dict process p writes into
  thr,         \* the FUSE threads: the call each executes and where it is
  last,        \* the call that returned last, with its result
  noent,       \* self._get_file_noent: path -> time of the last check
  clock,       \* time.time()
  nticks,      \* clock steps taken
  fd,          \* self.fd
  rcont,       \* the store: names of the containers
  rblobs,      \* the store: container -> (blob key -> content length)
  ncalls,      \* filesystem calls dispatched
  faults,      \* remote failures injected into the handlers
  pfails,      \* remote failures injected into the Populators
  sc,          \* the workload: the calls made and the budgets of the run
  failT,       \* history: path -> time of its last failed property fetch
  want         \* history: <<container, leaf>> -> "in" after a successful
               \* create, "out" after a successful unlink

vars ==
  <<containers, gen, procs, mdict, thr, last, noent, clock, nticks, fd, rcont, rblobs,
    ncalls, faults, pfails, sc, failT, want>>

\* dict operations
DictSet(d, k, v) == [x \in (DOMAIN d) \cup {k} |-> IF x = k THEN v ELSE d[x]]

DictDel(d, k) == [x \in (DOMAIN d) \ {k} |-> d[x]]

EmptyDict == [x \in {} |-> 0]

\* dict.get(k, default)
DictGet(d, k, default) == IF k \in DOMAIN d THEN d[k] ELSE default

\* a file node; src records the blob key the entry was made for
Node(size, src) == [st_size |-> size, src |-> src]

\* rebuild_container_list: the map built from list_containers()
BuildContainerMap(names) ==
  [k \in {CKey(c) : c \in names} \cup {Root} |->
     IF k = Root THEN [files |-> 0, process |-> NoKey]
     ELSE [files |-> NoneRef, process |-> NoKey]]

\* A thread between two calls.  op, path, pc, gpath, cr, force, newp and
\* files are the handler's position and locals; rc, rlist, rsize and rfh its
\* result; the other fields record what the call saw and did (quiet: no
\* Populator of the container was running when a forced _get_dir made its
\* checks).
IdleThread ==
  [op |-> "none", path |-> <<>>, pc |-> "done", gpath |-> <<>>, cr |-> FALSE,
   force |-> FALSE, newp |-> 0, files |-> NoneRef,
   rc |-> "none", rlist |-> EmptyDict, rsize |-> 0 - 1, rfh |-> 0,
   gen0 |-> 0 - 1, mixed |-> FALSE, nstarted |-> 0, fetched |-> FALSE,
   remote |-> FALSE, known |-> TRUE, sawExh |-> FALSE, prior |-> {},
   preFail |-> 0 - 1, preWant |-> EmptyDict, tend |-> 0,
   negHeld |-> FALSE, fdtmp |-> 0, maxfh |-> 0, rout |-> "none", quiet |-> FALSE]

\* time.time() at construction, far from the epoch
StartTime == 100

InitBlobs ==
  {b \in [ContainerNames -> UNION {[ks -> BlobSizes] : ks \in SUBSET BlobKeys}] :
     /\ b[Cxyz] = EmptyDict
     /\ \A k \in DOMAIN b[Cabc] : b[Cabc][k] > 0}

\* a workload: its calls, and how many calls, clock steps and remote
\* failures (in the handlers, in the Populators) a run has
Workload(load, calls, ticks, nfaults, npfails) ==
  [load |-> load, calls |-> calls, ticks |-> ticks, faults |-> nfaults,
   pfails |-> npfails]

\* AzureFS.__init__: the registry is built from the store's containers
InitWith(w, blobs) ==
  /\ sc = w
  /\ pfails = 0
  /\ rcont = {Cabc}
  /\ rblobs \in blobs
  /\ containers = BuildContainerMap({Cabc})
  /\ gen = 0
  /\ procs = <<>>
  /\ mdict = <<>>
  /\ thr = [t \in Threads |-> IdleThread]
  /\ last = IdleThread
  /\ noent = EmptyDict
  /\ clock = StartTime
  /\ nticks = 0
  /\ fd = 0
  /\ ncalls = 0
  /\ faults = 0
  /\ failT = EmptyDict
  /\ want = EmptyDict

(***************************************************************************)
(* Results of a call.  An exception that is no FuseOSError leaves the      *)
(* handler under its own name (fusepy reports it as EFAULT).               *)
(***************************************************************************)
Finish(T, rc) == [T EXCEPT !.pc = "done", !.rc = rc]

\* an exception raised inside _get_dir or while using its result: unlink
\* wraps the call in try/except Exception and raises EAGAIN instead
Raise(T, exc) == Finish(T, IF T.op = "unlink" THEN "EAGAIN" ELSE exc)

\* open, line 325: self.fd += 1 has loaded self.fd (f) and not yet stored
OpenHandle(T, f) == [T EXCEPT !.pc = "fdstore", !.fdtmp = f]

\* the leaf a call is about, as the key of want
WantKey(path) == <<ParseContainer(path), ParseLeaf(path)>>

\* a forced refresh of container c is being executed
Refreshing(c) == \E u \in Threads : thr[u].force /\ ParseContainer(thr[u].path) = c

\* the history of create and unlink once thread record T is reached
WantAfter(T) ==
  LET c == ParseContainer(T.path)
  IN  IF T.force THEN [k \in {x \in DOMAIN want : x[1] # c} |-> want[k]]
      ELSE IF T.pc # "done" THEN want
      ELSE IF T.op = "open" THEN DictDel(want, <<c, BlobKey(T.path)>>)
      ELSE IF T.rc # "OK" \/ Refreshing(c) THEN want
      ELSE IF T.op = "create"
        THEN \* an unlink that returned since the placeholder was stored may
             \* count as the later of the two
             IF DictGet(want, WantKey(T.path), "any") = DictGet(T.preWant, WantKey(T.path), "any")
               THEN DictSet(want, WantKey(T.path), "in")
               ELSE DictDel(want, WantKey(T.path))
      ELSE IF T.op = "unlink" THEN DictSet(want, WantKey(T.path), "out")
      ELSE want

\* what of the history w still stands in want
StillWanted(w) == [k \in {x \in DOMAIN w : DictGet(want, x, "any") = w[x]} |-> w[k]]

\* The thread moves to record T; a call that has returned leaves its record
\* in last and frees the thread.  ne is self._get_file_noent afterwards.
Settle(t, T, ne) ==
  \E R \in {T} :
    /\ thr' = [thr EXCEPT ![t] = IF R.pc = "done" THEN IdleThread ELSE R]
    /\ last' = IF R.pc = "done"
                 THEN [R EXCEPT !.tend = clock, !.negHeld = R.path \in DOMAIN ne,
                                !.maxfh = IF R.rfh > last.maxfh THEN R.rfh ELSE last.maxfh,
                                !.fdtmp = 0,
                                !.preWant = StillWanted(R.preWant),
                                !.gpath = <<>>, !.newp = 0, !.files = NoneRef,
                                !.gen0 = 0 - 1, !.prior = {}]
                 ELSE last
    /\ want' = WantAfter(R)

(***************************************************************************)
(* What the caller of _get_dir does with the entry it returns, up to the   *)
(* caller's next blocking call.  fid is the entry's 'files' field.         *)
(* The result is the thread, the Manager dicts and self.fd afterwards.     *)
(***************************************************************************)
\* _get_file after _get_dir: lookup in the listing, then the negative cache
AfterGetFile(T, fid, md, f) ==
  LET leaf == ParseLeaf(T.path)
  IN  IF fid = NoneRef THEN [T |-> Raise(T, "TypeError"), mdict |-> md, fd |-> f]
      ELSE IF leaf \in DOMAIN md[fid]
        THEN [T |-> [Finish(T, "OK") EXCEPT !.rsize = md[fid][leaf].st_size],
              mdict |-> md, fd |-> f]
      ELSE IF clock - DictGet(noent, T.path, 0) <= NEG_TTL
        THEN [T |-> Finish([T EXCEPT !.preFail = DictGet(failT, T.path, 0 - 1)], "ENOENT"),
              mdict |-> md, fd |-> f]
      ELSE [T |-> [T EXCEPT !.pc = "fetch", !.files = fid,
                            !.preFail = DictGet(failT, T.path, 0 - 1)],
            mdict |-> md, fd |-> f]

\* getattr
AfterGetattr(T, fid, md, f) ==
  IF ParseLeaf(T.path) = <<>>
    THEN [T |-> [Finish(T, "OK") EXCEPT !.rsize = 0], mdict |-> md, fd |-> f]
    ELSE AfterGetFile(T, fid, md, f)

\* readdir of a container
AfterReaddir(T, fid, md, f) ==
  IF fid = NoneRef THEN [T |-> Raise(T, "AttributeError"), mdict |-> md, fd |-> f]
  ELSE [T |-> [Finish(T, "OK") EXCEPT !.rlist = md[fid]], mdict |-> md, fd |-> f]

\* create: the placeholder node, or nothing for the reserved leaf; then open
AfterCreate(T, fid, md, f) ==
  LET leaf == ParseLeaf(T.path)
  IN  IF leaf = RefreshLeaf THEN [T |-> OpenHandle(T, f), mdict |-> md, fd |-> f]
      ELSE IF fid = NoneRef THEN [T |-> Raise(T, "TypeError"), mdict |-> md, fd |-> f]
      ELSE [T |-> [OpenHandle(T, f) EXCEPT !.preWant = want],
            mdict |-> [md EXCEPT ![fid] = DictSet(@, leaf, Node(0, BlobKey(T.path)))],
            fd |-> f]

\* unlink after the remote delete succeeded
AfterUnlink(T, fid, md, f) ==
  LET leaf == ParseLeaf(T.path)
  IN  IF fid = NoneRef THEN [T |-> Raise(T, "TypeError"), mdict |-> md, fd |-> f]
      ELSE [T |-> Finish(T, "OK"), mdict |-> [md EXCEPT ![fid] = DictDel(@, leaf)],
            fd |-> f]

\* open after the store reported the blob missing
AfterOpen(T, fid, md, f) ==
  IF fid = NoneRef THEN [T |-> Raise(T, "TypeError"), mdict |-> md, fd |-> f]
  ELSE [T |-> Finish(T, "ENOENT"),
        mdict |-> [md EXCEPT ![fid] = DictDel(@, BlobKey(T.path))], fd |-> f]

AfterGetDir(T, fid, md, f) ==
  CASE T.op = "getattr" -> AfterGetattr(T, fid, md, f)
    [] T.op = "readdir" -> AfterReaddir(T, fid, md, f)
    [] T.op = "create" -> AfterCreate(T, fid, md, f)
    [] T.op = "unlink" -> AfterUnlink(T, fid, md, f)
    [] T.op = "open" -> AfterOpen(T, fid, md, f)

(***************************************************************************)
(* Dispatch of a filesystem call to a thread.                              *)
(***************************************************************************)
\* Populator processes that are running
Running == {p \in 1..Len(procs) : procs[p].st # "exited"}

\* the running Populator processes of container c
PopulatorsOf(c) == {p \in Running : procs[p].cname = c}

\* running processes whose launching call has returned
Settled == {p \in Running : \A u \in Threads : thr[u].newp # p}

\* a thread entering a handler
Call(op, path) ==
  [IdleThread EXCEPT !.op = op, !.path = path, !.prior = Settled]

\* the call of _get_dir(gpath, contents_required, force)
EnterGetDir(T, gpath, cr, force) ==
  [T EXCEPT !.pc = "gd", !.gpath = gpath, !.cr = cr, !.force = force]

\* a registry read by a call: remember the first dict seen, note a change
Observe(T) ==
  [T EXCEPT !.gen0 = IF @ = 0 - 1 THEN gen ELSE @,
            !.mixed = @ \/ (T.gen0 # 0 - 1 /\ T.gen0 # gen)]

\* getattr, lines 231-243, up to its first shared access
StartGetattr(path) ==
  LET T == Call("getattr", path)
  IN  IF ParseLeaf(path) = <<>> THEN EnterGetDir(T, ParseDir(path), FALSE, FALSE)
      ELSE EnterGetDir(T, ParseDir(path), TRUE, FALSE)

\* readdir, lines 361-368
StartReaddir(path) ==
  LET T == [Call("readdir", path) EXCEPT !.preWant = want]
  IN  IF path = Root
        THEN [Finish(Observe(T), "OK") EXCEPT
                !.rlist = [k \in {From(x, 1) : x \in (DOMAIN containers) \ {Root}} |->
                             Node(0, <<>>)]]
        ELSE EnterGetDir(T, path, TRUE, FALSE)

\* create, lines 289-303
StartCreate(path) ==
  LET T == Call("create", path)
  IN  IF ParseLeaf(path) = <<>> THEN Finish(T, "ENOSYS")
      ELSE IF ParseLeaf(path) = RefreshLeaf THEN EnterGetDir(T, path, TRUE, TRUE)
      ELSE EnterGetDir(T, ParseDir(path), TRUE, FALSE)

\* unlink, lines 345-350: the remote delete comes first
StartUnlink(path) == [Call("unlink", path) EXCEPT !.pc = "del"]

\* open with data=None, lines 310-316: the remote metadata fetch comes first
StartOpen(path) == [Call("open", path) EXCEPT !.pc = "meta"]

\* mkdir, lines 246-274
StartMkdir(path) == [Call("mkdir", path) EXCEPT !.pc = "mk"]

\* the paths the workload calls op with
PathsOf(op) == {c[2] : c \in {x \in sc.load : x[1] = op}}

\* a call goes to the first free thread (the threads are interchangeable)
Dispatch(t, T) ==
  /\ thr[t].pc = "done"
  /\ \A u \in Threads : u < t => thr[u].pc # "done"
  /\ ncalls < sc.calls
  /\ ncalls' = ncalls + 1
  /\ Settle(t, T, noent)
  /\ UNCHANGED <<containers, gen, procs, mdict, noent, clock, nticks, fd, rcont,
                 rblobs, faults, failT, sc, pfails>>

Getattr(t) == \E path \in PathsOf("getattr") : Dispatch(t, StartGetattr(path))

Readdir(t) == \E path \in PathsOf("readdir") : Dispatch(t, StartReaddir(path))

Create(t) == \E path \in PathsOf("create") : Dispatch(t, StartCreate(path))

Unlink(t) == \E path \in PathsOf("unlink") : Dispatch(t, StartUnlink(path))

Open(t) == \E path \in PathsOf("open") : Dispatch(t, StartOpen(path))

Mkdir(t) == \E path \in PathsOf("mkdir") : Dispatch(t, StartMkdir(path))

(***************************************************************************)
(* _get_dir, lines 122-174.                                                *)
(***************************************************************************)
\* join called on every recorded process
JoinsRecorded(e) == e.process >= 1

\* lines 125-128: join is called on a recorded process that is not alive
Joins(e) == e.process >= 1 /\ procs[e.process].st = "exited"

\* line 129: p.join() returns once the process has ended
JoinReturns(e) == Joins(e) => procs[e.process].st = "exited"

\* lines 125-130: a recorded process that has ended is joined and forgotten
JoinEnded(e) == IF Joins(e) THEN [e EXCEPT !.process = NoneRef] ELSE e

\* only the second test, lines 137-140: a listed entry is returned
ReturnsCachedIfListed(T, cmap) ==
  T.gpath \in DOMAIN cmap /\ ~T.force /\ cmap[T.gpath].files # NoneRef

\* lines 134-140: the entry is returned as it is
ReturnsCached(T, cmap) ==
  \/ T.gpath \in DOMAIN cmap /\ ~T.cr
  \/ T.gpath \in DOMAIN cmap /\ ~T.force /\ cmap[T.gpath].files # NoneRef

\* lines 149-158: a new process is to be launched
MustLaunch(T, e) == (e.files = NoneRef \/ T.force) /\ ~(e.process >= 1)

\* every listing call of process p failed: it used up its attempts and
\* never got past the first page
AllFailed(p) == procs[p].st = "exited" /\ procs[p].attempts = 0 /\ procs[p].marker = 0

\* the listing of entry e was left by such a process
Exhausted(e) == e.files >= 1 /\ AllFailed(e.files)

\* lines 123-157: everything up to the launch of a process (the locals are
\* bound by \E over one-element sets, so that each is computed once)
GetDirCheck(t) ==
  /\ thr[t].pc = "gd"
  /\ \E T0 \in {Observe(thr[t])} :
     \E key \in {CKey(ParseContainer(T0.gpath))} :
       /\ key \in DOMAIN containers => JoinReturns(containers[key])
       /\ IF key \notin DOMAIN containers
            THEN /\ Settle(t, Raise([T0 EXCEPT !.known = FALSE], "KeyError"), noent)
                 /\ UNCHANGED <<containers, mdict, fd>>
            ELSE \E cmap \in {[containers EXCEPT ![key] = JoinEnded(@)]} :
                 \E T \in {[T0 EXCEPT !.sawExh = Exhausted(cmap[key]),
                                     !.quiet = T0.force /\ PopulatorsOf(ParseContainer(T0.gpath)) = {}]} :
                 \E r \in {IF ReturnsCached(T, cmap)
                              THEN AfterGetDir(T, cmap[T.gpath].files, mdict, fd)
                            ELSE IF MustLaunch(T, cmap[key])
                              THEN [T |-> [T EXCEPT !.pc = "spawn"], mdict |-> mdict,
                                    fd |-> fd]
                            ELSE AfterGetDir(T, cmap[key].files, mdict, fd)} :
                   /\ containers' = cmap
                   /\ Settle(t, r.T, noent)
                   /\ mdict' = r.mdict
                   /\ fd' = r.fd
  /\ UNCHANGED <<gen, procs, noent, clock, nticks, rcont, rblobs, ncalls, faults,
                 failT, sc, pfails>>

\* a Populator process at its start: marker = None, available_attempts = 5;
\* seen collects the blobs the pages have returned
NewProcess(cname) ==
  [cname |-> cname, marker |-> 0, attempts |-> ATTEMPTS, batch |-> {}, next |-> 0,
   st |-> "list", seen |-> {}]

\* lines 159-169: Manager(), m.dict(), Process(...), p.start()
GetDirSpawn(t) ==
  LET T == thr[t]
  IN  /\ T.pc = "spawn"
      /\ Len(procs) < MaxProcs
      /\ procs' = Append(procs, NewProcess(ParseContainer(T.gpath)))
      /\ mdict' = Append(mdict, EmptyDict)
      /\ Settle(t, [T EXCEPT !.pc = "setproc", !.newp = Len(procs) + 1,
                             !.nstarted = @ + 1], noent)
      /\ UNCHANGED <<containers, gen, noent, clock, nticks, fd, rcont, rblobs, ncalls,
                     faults, failT, sc, pfails>>

\* line 170: self.containers['/' + cname]['process'] = p
GetDirSetProcess(t) ==
  LET T == Observe(thr[t])
      key == CKey(ParseContainer(T.gpath))
  IN  /\ thr[t].pc = "setproc"
      /\ IF key \notin DOMAIN containers
           THEN /\ Settle(t, Raise(T, "KeyError"), noent)
                /\ UNCHANGED containers
           ELSE /\ containers' = [containers EXCEPT ![key].process = T.newp]
                /\ Settle(t, [T EXCEPT !.pc = "attach"], noent)
      /\ UNCHANGED <<gen, procs, mdict, noent, clock, nticks, fd, rcont, rblobs, ncalls,
                     faults, failT, sc, pfails>>

\* lines 171-173: the log line reads ['process'], then 'files' is attached
\* and the entry returned
GetDirAttach(t) ==
  /\ thr[t].pc = "attach"
  /\ \E T \in {Observe(thr[t])} :
     \E key \in {CKey(ParseContainer(T.gpath))} :
       IF key \notin DOMAIN containers \/ containers[key].process = NoKey
         THEN /\ Settle(t, Raise(T, "KeyError"), noent)
              /\ UNCHANGED <<containers, mdict, fd>>
         ELSE \E r \in {AfterGetDir(T, T.newp, mdict, fd)} :
                /\ containers' = [containers EXCEPT ![key].files = T.newp]
                /\ Settle(t, r.T, noent)
                /\ mdict' = r.mdict
                /\ fd' = r.fd
  /\ UNCHANGED <<gen, procs, noent, clock, nticks, rcont, rblobs, ncalls, faults,
                 failT, sc, pfails>>

(***************************************************************************)
(* The remote store.                                                       *)
(***************************************************************************)
RemoteHas(c, k) == c \in rcont /\ k \in DOMAIN rblobs[c]

\* list_blobs(cname, marker): the keys of one page and the next marker;
\* a marker is the position of the last key returned, 0 stands for None
PageKeys(c, marker) ==
  LET avail == {i \in 1..Len(KeyOrder) : i > marker /\ KeyOrder[i] \in DOMAIN rblobs[c]}
  IN  {i \in avail : Cardinality({j \in avail : j < i}) < PageSize}

NextMarker(c, marker) ==
  LET avail == {i \in 1..Len(KeyOrder) : i > marker /\ KeyOrder[i] \in DOMAIN rblobs[c]}
      page == PageKeys(c, marker)
  IN  IF avail \ page = {} THEN 0 ELSE CHOOSE i \in page : \A j \in page : i >= j

(***************************************************************************)
(* _get_file, lines 194-229: the direct property fetch.                    *)
(***************************************************************************)
\* the thread after the fetch: found with a positive size, or not
FetchResult(T, found, size) ==
  IF found /\ size > 0
    THEN [Finish(T, "OK") EXCEPT !.rsize = size, !.fetched = TRUE, !.remote = TRUE]
    ELSE [Finish(T, "ENOENT") EXCEPT !.fetched = TRUE, !.remote = TRUE]

\* self._get_file_noent after the fetch
FetchNoent(path, found, size) ==
  IF found /\ size > 0 THEN DictDel(noent, path) ELSE DictSet(noent, path, clock)

\* the listing the node is stored in when the blob has a positive size
FetchStore(T, found, size) ==
  IF found /\ size > 0
    THEN [mdict EXCEPT ![T.files] = DictSet(@, ParseLeaf(T.path), Node(size, BlobKey(T.path)))]
    ELSE mdict

\* the fetch answered: found with the size, or missing
FetchAnswer(t, found, size) ==
  /\ noent' = FetchNoent(thr[t].path, found, size)
  /\ mdict' = FetchStore(thr[t], found, size)
  /\ failT' = IF found /\ size > 0 THEN failT ELSE DictSet(failT, thr[t].path, clock)
  /\ Settle(t, FetchResult(thr[t], found, size), noent')

GetFileFetch(t) ==
  /\ thr[t].pc = "fetch"
  /\ \E c \in {ParseContainer(ParseDir(thr[t].path))} :
     \E k \in {BlobKey(thr[t].path)} :
       \/ /\ RemoteHas(c, k)
          /\ FetchAnswer(t, TRUE, rblobs[c][k])
          /\ UNCHANGED faults
       \/ /\ ~RemoteHas(c, k)
          /\ FetchAnswer(t, FALSE, 0)
          /\ UNCHANGED faults
       \/ \* AzureException or ConnectionError
          /\ faults < sc.faults
          /\ faults' = faults + 1
          /\ FetchAnswer(t, FALSE, 0)
  /\ UNCHANGED <<containers, gen, procs, clock, nticks, fd, rcont, rblobs, ncalls, sc,
                 pfails>>

(***************************************************************************)
(* unlink, lines 349-359: the remote delete.                               *)
(***************************************************************************)
UnlinkDelete(t) ==
  LET T == [thr[t] EXCEPT !.remote = TRUE]
      c == ParseContainer(T.path)
      f == ParseLeaf(T.path)
  IN  /\ thr[t].pc = "del"
      /\ \/ /\ RemoteHas(c, f)
            /\ rblobs' = [rblobs EXCEPT ![c] = DictDel(@, f)]
            /\ Settle(t, EnterGetDir([T EXCEPT !.rout = "ok"], T.path, TRUE, FALSE), noent)
            /\ UNCHANGED faults
         \/ /\ ~RemoteHas(c, f)
            /\ Settle(t, Finish([T EXCEPT !.rout = "missing"], "ENOENT"), noent)
            /\ UNCHANGED <<rblobs, faults>>
         \/ /\ faults < sc.faults
            /\ faults' = faults + 1
            /\ Settle(t, Finish([T EXCEPT !.rout = "error"], "EAGAIN"), noent)
            /\ UNCHANGED rblobs
      /\ UNCHANGED <<containers, gen, procs, mdict, noent, clock, nticks, fd, rcont,
                     ncalls, failT, sc, pfails>>

(***************************************************************************)
(* open, lines 311-326: the remote metadata fetch.                         *)
(***************************************************************************)
OpenMeta(t) ==
  LET T == [thr[t] EXCEPT !.remote = TRUE]
      c == ParseContainer(T.path)
      k == BlobKey(T.path)
  IN  /\ thr[t].pc = "meta"
      /\ \/ /\ RemoteHas(c, k)
            /\ Settle(t, OpenHandle(T, fd), noent)
            /\ UNCHANGED <<fd, faults>>
         \/ /\ ~RemoteHas(c, k)
            /\ Settle(t, EnterGetDir(T, CKey(c), TRUE, FALSE), noent)
            /\ UNCHANGED <<fd, faults>>
         \/ \* AzureException: the handler formats e.code, which it has not
            /\ faults < sc.faults
            /\ faults' = faults + 1
            /\ Settle(t, Finish(T, "AttributeError"), noent)
            /\ UNCHANGED fd
      /\ UNCHANGED <<containers, gen, procs, mdict, noent, clock, nticks, rcont, rblobs,
                     ncalls, failT, sc, pfails>>

(***************************************************************************)
(* open, lines 325-326: the handle.  self.fd += 1 loads, adds and stores;  *)
(* the return statement loads self.fd again.                               *)
(***************************************************************************)
\* line 325: the sum is stored
FdStore(t) ==
  LET T == thr[t]
  IN  /\ T.pc = "fdstore"
      /\ fd' = T.fdtmp + 1
      /\ Settle(t, [T EXCEPT !.pc = "fdret"], noent)
      /\ UNCHANGED <<containers, gen, procs, mdict, noent, clock, nticks, rcont, rblobs,
                     ncalls, faults, failT, sc, pfails>>

\* line 326: return self.fd
FdReturn(t) ==
  LET T == thr[t]
  IN  /\ T.pc = "fdret"
      /\ Settle(t, [Finish(T, "OK") EXCEPT !.rfh = fd], noent)
      /\ UNCHANGED <<containers, gen, procs, mdict, noent, clock, nticks, fd, rcont,
                     rblobs, ncalls, faults, failT, sc, pfails>>

FdStep ==
  \/ \E t \in Threads : FdStore(t)
  \/ \E t \in Threads : FdReturn(t)

(***************************************************************************)
(* mkdir, lines 246-274.                                                   *)
(***************************************************************************)
\* 'name is not name.lower()' compares object identities.  Different
\* strings are different objects; whether lower() of a lowercase string
\* returns the same object is up to the interpreter.
SameObjectAsLower(name) == IF name = Lower(name) THEN {TRUE, FALSE} ELSE {FALSE}

\* the error the checks of lines 247-260 raise, "none" when they pass
MkdirCheck(path, same) ==
  LET name == From(path, 1)
  IN  IF Count(path, SEP) > 1 THEN "ENOSYS"
      ELSE IF ~(MIN_NAME <= Len(name) /\ Len(name) <= MAX_NAME) THEN "ENAMETOOLONG"
      ELSE IF ~same THEN "EACCES"
      ELSE IF CountDashes(name, 1) > 0 THEN "EAGAIN"
      ELSE "none"

\* lines 247-270: the checks, then create_container
MkdirCreate(t) ==
  LET T == thr[t]
      name == From(T.path, 1)
  IN  /\ T.pc = "mk"
      /\ \E same \in SameObjectAsLower(name) :
           IF MkdirCheck(T.path, same) # "none"
             THEN /\ Settle(t, Finish(T, MkdirCheck(T.path, same)), noent)
                  /\ UNCHANGED rcont
             ELSE IF name \in rcont
               THEN /\ Settle(t, [Finish(T, "EACCES") EXCEPT !.remote = TRUE], noent)
                    /\ UNCHANGED rcont
               ELSE /\ Settle(t, [T EXCEPT !.pc = "rebuild", !.remote = TRUE], noent)
                    /\ rcont' = rcont \cup {name}
      /\ UNCHANGED <<containers, gen, procs, mdict, noent, clock, nticks, fd, rblobs,
                     ncalls, faults, failT, sc, pfails>>

\* line 267 and lines 88-104: list_containers(), then the registry is rebound
MkdirRebuild(t) ==
  LET T == thr[t]
  IN  /\ T.pc = "rebuild"
      /\ containers' = BuildContainerMap(rcont)
      /\ gen' = gen + 1
      /\ Settle(t, Finish(T, "OK"), noent)
      /\ UNCHANGED <<procs, mdict, noent, clock, nticks, fd, rcont, rblobs, ncalls,
                     faults, failT, sc, pfails>>

(***************************************************************************)
(* The Populator process: get_files_from_blob_service, lines 43-73.        *)
(***************************************************************************)
\* line 49 succeeds: the batch of one page
PopList(p) ==
  LET P == procs[p]
  IN  /\ P.st = "list"
      /\ P.cname \in rcont
      /\ procs' = [procs EXCEPT ![p] =
                     [P EXCEPT !.st = "write",
                               !.batch = {[name |-> KeyOrder[i],
                                           size |-> rblobs[P.cname][KeyOrder[i]]] :
                                            i \in PageKeys(P.cname, P.marker)},
                               !.next = NextMarker(P.cname, P.marker),
                               !.seen = @ \cup {[name |-> KeyOrder[i],
                                                  size |-> rblobs[P.cname][KeyOrder[i]]] :
                                                   i \in PageKeys(P.cname, P.marker)}]]
      /\ UNCHANGED <<containers, gen, mdict, thr, last, noent, clock, nticks, fd, rcont,
                     rblobs, ncalls, faults, failT, want, sc, pfails>>

\* the process after a failed attempt, lines 64-73
AfterFailure(P) ==
  IF P.attempts - 1 = 0
    THEN [P EXCEPT !.attempts = 0, !.st = "exited"]
    ELSE [P EXCEPT !.attempts = @ - 1, !.st = "list"]

\* line 49 raises
PopFail(p) ==
  LET P == procs[p]
  IN  /\ P.st = "list"
      /\ pfails < sc.pfails
      /\ pfails' = pfails + 1
      /\ procs' = [procs EXCEPT ![p] = AfterFailure(P)]
      /\ UNCHANGED <<containers, gen, mdict, thr, last, noent, clock, nticks, fd, rcont,
                     rblobs, ncalls, faults, failT, want, sc>>

\* a loop body that stores nothing
ListedNothing(d, batch) == d

\* lines 52-60: the blobs of the batch that lie directly under the container
Listed(d, batch) ==
  LET top == {b \in batch : Find(b.name, SEP, 0) = 0 - 1}
  IN  [x \in (DOMAIN d) \cup {b.name : b \in top} |->
         IF \E b \in top : b.name = x
           THEN Node((CHOOSE b \in top : b.name = x).size, x)
           ELSE d[x]]

\* a loop that would start counting its attempts anew after each page
AfterBatchReset(P) ==
  IF P.next = 0
    THEN [P EXCEPT !.st = "exited", !.batch = {}, !.marker = 0, !.attempts = ATTEMPTS]
    ELSE [P EXCEPT !.st = "list", !.batch = {}, !.marker = P.next, !.next = 0,
                   !.attempts = ATTEMPTS]

\* after the batch: the loop ends with the last page or goes on
AfterBatch(P) ==
  IF P.next = 0
    THEN [P EXCEPT !.st = "exited", !.batch = {}, !.marker = 0]
    ELSE [P EXCEPT !.st = "list", !.batch = {}, !.marker = P.next, !.next = 0]

\* lines 52-63: the batch is written
PopWrite(p) ==
  LET P == procs[p]
  IN  /\ P.st = "write"
      /\ mdict' = [mdict EXCEPT ![p] = Listed(@, P.batch)]
      /\ procs' = [procs EXCEPT ![p] = AfterBatch(P)]
      /\ UNCHANGED <<containers, gen, thr, last, noent, clock, nticks, fd, rcont, rblobs,
                     ncalls, faults, failT, want, sc, pfails>>

(***************************************************************************)
(* write, lines 337-343, and read, lines 370-387.                          *)
(***************************************************************************)
\* the names the module binds that the handlers raise errors with
\* (line 22: from fuse import FUSE, FuseOSError, Operations, LoggingMixIn)
GlobalNames == {"FUSE", "FuseOSError", "Operations", "LoggingMixIn"}

\* raise <name>(errno): the name is looked up when the statement runs
RaiseNamed(T, name, errno) ==
  IF name \in GlobalNames THEN Finish(T, errno) ELSE Finish(T, "NameError")

\* write, line 343: raise FUSEOSError(EPERM)
StartWrite(path) == RaiseNamed(Call("write", path), "FUSEOSError", "EPERM")

Write(t) == \E path \in PathsOf("write") : Dispatch(t, StartWrite(path))

\* read, lines 371-372: the blob key and the container name
ReadContainer(path) ==
  LET e == Find(path, SEP, 1)
  IN  IF e < 0 THEN SubSeq(path, 2, Len(path) + e) ELSE Slice(path, 1, e)

\* read up to the call of get_blob
StartRead(path) == [Call("read", path) EXCEPT !.pc = "get"]

Read(t) == \E path \in PathsOf("read") : Dispatch(t, StartRead(path))

\* lines 380-387: 'except TypeError, e' and the branches on e.code; an
\* exception of another class leaves the handler
ReadError(T, exc, code) ==
  IF exc # "TypeError" THEN Finish(T, exc)
  ELSE IF code = 404 THEN RaiseNamed(T, "FuseOSError", "ENOENT")
  ELSE IF code = 403 THEN RaiseNamed(T, "FUSEOSError", "EPERM")
  ELSE RaiseNamed(T, "FuseOSError", "EAGAIN")

\* lines 377-379: get_blob returns the bytes or raises
ReadGet(t) ==
  LET T == [thr[t] EXCEPT !.remote = TRUE]
      c == ReadContainer(T.path)
      k == BlobKey(T.path)
  IN  /\ thr[t].pc = "get"
      /\ \/ /\ RemoteHas(c, k)
            /\ Settle(t, [Finish(T, "OK") EXCEPT !.rsize = rblobs[c][k], !.rout = "ok"],
                      noent)
            /\ UNCHANGED faults
         \/ /\ ~RemoteHas(c, k)
            /\ Settle(t, ReadError([T EXCEPT !.rout = "missing"],
                                   "AzureMissingResourceHttpError", 404), noent)
            /\ UNCHANGED faults
         \/ /\ faults < sc.faults
            /\ faults' = faults + 1
            /\ \/ Settle(t, ReadError([T EXCEPT !.rout = "denied"], "AzureHttpError", 403),
                          noent)
               \/ Settle(t, ReadError([T EXCEPT !.rout = "error"], "AzureHttpError", 500),
                          noent)
      /\ UNCHANGED <<containers, gen, procs, mdict, noent, clock, nticks, fd, rcont,
                     rblobs, ncalls, failT, sc, pfails>>

(***************************************************************************)
(* Time.                                                                   *)
(***************************************************************************)
\* The clock steps are the pauses between calls: a handler runs in much
\* less than a step.
Tick ==
  /\ nticks < sc.ticks
  /\ \A t \in Threads : thr[t].pc = "done"
  /\ \E d \in {NEG_TTL, NEG_TTL + 1} : clock' = clock + d
  /\ nticks' = nticks + 1
  /\ UNCHANGED <<containers, gen, procs, mdict, thr, last, noent, fd, rcont, rblobs,
                 ncalls, faults, failT, want, sc, pfails>>

(***************************************************************************)
(* The steps of the handlers and of the Populators.                        *)
(***************************************************************************)
GetDirStep ==
  \/ \E t \in Threads : GetDirCheck(t)
  \/ \E t \in Threads : GetDirSpawn(t)
  \/ \E t \in Threads : GetDirSetProcess(t)
  \/ \E t \in Threads : GetDirAttach(t)

PopStep ==
  \/ \E p \in 1..Len(procs) : PopList(p)
  \/ \E p \in 1..Len(procs) : PopWrite(p)

\* the store at the start: both blobs there, with content
FullStore == {b \in InitBlobs : DOMAIN b[Cabc] = BlobKeys}

\* the store at the start: one blob, directly under the container
OneFile == {b \in InitBlobs : DOMAIN b[Cabc] = {Kf}}

\* registry workload
NextReg ==
  \/ \E t \in Threads : Getattr(t)
  \/ \E t \in Threads : Readdir(t)
  \/ \E t \in Threads : Create(t)
  \/ \E t \in Threads : Mkdir(t)
  \/ \E t \in Threads : MkdirCreate(t)
  \/ \E t \in Threads : MkdirRebuild(t)
  \/ GetDirStep
  \/ FdStep
  \/ PopStep

SpecReg == InitWith(Workload(RegLoad, RegCalls, 0, 0, 0), FullStore) /\ [][NextReg]_vars

\* Populator retry workload
NextRetry ==
  \/ \E t \in Threads : Readdir(t)
  \/ \E t \in Threads : Create(t)
  \/ GetDirStep
  \/ FdStep
  \/ PopStep
  \/ \E p \in 1..Len(procs) : PopFail(p)

SpecRetry ==
  InitWith(Workload(RetryLoad, RetryCalls, 0, 0, RetryFails), FullStore)
    /\ [][NextRetry]_vars

\* negative cache workload
NextNeg ==
  \/ \E t \in Threads : Getattr(t)
  \/ \E t \in Threads : Unlink(t)
  \/ \E t \in Threads : GetFileFetch(t)
  \/ \E t \in Threads : UnlinkDelete(t)
  \/ GetDirStep
  \/ PopStep
  \/ Tick

SpecNeg ==
  InitWith(Workload(NegLoad, NegCalls, NegTicks, NegFaults, 0), OneFile)
    /\ [][NextNeg]_vars

\* listing workload
NextList ==
  \/ \E t \in Threads : Readdir(t)
  \/ \E t \in Threads : Create(t)
  \/ \E t \in Threads : Unlink(t)
  \/ \E t \in Threads : UnlinkDelete(t)
  \/ GetDirStep
  \/ FdStep
  \/ PopStep

SpecList ==
  InitWith(Workload(ListLoad, ListCalls, 0, 0, 0), FullStore) /\ [][NextList]_vars

\* workload on paths below the first level
NextDeep ==
  \/ \E t \in Threads : Getattr(t)
  \/ \E t \in Threads : Readdir(t)
  \/ \E t \in Threads : Create(t)
  \/ \E t \in Threads : Open(t)
  \/ \E t \in Threads : GetFileFetch(t)
  \/ \E t \in Threads : OpenMeta(t)
  \/ GetDirStep
  \/ FdStep
  \/ PopStep

SpecDeep ==
  InitWith(Workload(DeepLoad, DeepCalls, 0, 0, 0), FullStore) /\ [][NextDeep]_vars

\* file handles and file contents
NextIo ==
  \/ \E t \in Threads : Write(t)
  \/ \E t \in Threads : Read(t)
  \/ \E t \in Threads : Create(t)
  \/ \E t \in Threads : Open(t)
  \/ \E t \in Threads : ReadGet(t)
  \/ \E t \in Threads : OpenMeta(t)
  \/ GetDirStep
  \/ FdStep
  \/ PopStep

SpecIo == InitWith(Workload(IoLoad, IoCalls, 0, IoFaults, 0), FullStore) /\ [][NextIo]_vars

\* the steps of the handler thread t runs, after the dispatch
ThreadStep(t) ==
  \/ GetDirCheck(t)
  \/ GetDirSpawn(t)
  \/ GetDirSetProcess(t)
  \/ GetDirAttach(t)
  \/ GetFileFetch(t)
  \/ UnlinkDelete(t)
  \/ OpenMeta(t)
  \/ FdStore(t)
  \/ FdReturn(t)

\* calls made while a Populator runs
NextWait ==
  \/ \E t \in Threads : Getattr(t)
  \/ \E t \in Threads : Readdir(t)
  \/ \E t \in Threads : Create(t)
  \/ \E t \in Threads : Unlink(t)
  \/ \E t \in Threads : Open(t)
  \/ \E t \in Threads : ThreadStep(t)
  \/ PopStep
  \/ \E p \in 1..Len(procs) : PopFail(p)

\* A handler thread that can take a step takes it (the remote calls of the
\* handlers return or raise); nothing is assumed about the Populators.
SpecWait ==
  /\ InitWith(Workload(WaitLoad, WaitCalls, 0, 0, WaitFails), FullStore)
  /\ [][NextWait]_vars
  /\ \A t \in Threads : WF_vars(ThreadStep(t))

\* stat workload
NextStat ==
  \/ \E t \in Threads : Getattr(t)
  \/ \E t \in Threads : Readdir(t)
  \/ GetDirStep
  \/ PopStep

SpecStat == InitWith(Workload(StatLoad, StatCalls, 0, 0, 0), FullStore) /\ [][NextStat]_vars

\* the steps of Populator process p: the operating system schedules the
\* process, list_blobs answers or raises, and time.sleep(5) ends
PopRun(p) == p \in 1..Len(procs) /\ (PopList(p) \/ PopWrite(p))

\* one listing or forced refresh, its Populator scheduled again and again
SpecPop ==
  /\ InitWith(Workload(RetryLoad, PopCalls, 0, 0, PopFails), FullStore)
  /\ [][NextRetry]_vars
  /\ \A p \in 1..MaxProcs : WF_vars(PopRun(p))

(***************************************************************************)
(* Properties.                                                             *)
(***************************************************************************)
\* a step in which thread t moves
Moves(t) == thr'[t] # thr[t]

\* the call whose record is in last is a getattr of a file path
FileGetattr == last.op = "getattr" /\ ParseLeaf(last.path) # <<>>

\* the call whose record is in last is a listing of a container that
\* returned its entries
Listing == last.op = "readdir" /\ last.path # Root /\ last.rc = "OK"

\* C1: in every reachable state at most one Populator process is running
\* for any container, whatever the interleaving of the calls, of the
\* registry rebuild and of the Populator steps.
C1_AtMostOnePopulator ==
  \A c \in ContainerNames : Cardinality(PopulatorsOf(c)) <= 1

\* C2: a call of _get_dir with contents_required starts at most one
\* Populator, and it starts none for a container one of whose Populators,
\* started by a call that had returned before this call was issued, is
\* still running.
C2_NoSecondStart ==
  \A t \in Threads :
    /\ thr[t].nstarted <= 1
    /\ thr[t].nstarted = 1 =>
         \A p \in thr[t].prior :
           procs[p].cname = ParseContainer(thr[t].gpath) => procs[p].st = "exited"

\* C3: once a Populator has ended with all of its 5 listing calls failed,
\* the files field of its container is unknown (None), and a later
\* _get_dir with contents_required and without force starts a new
\* Populator (every Populator begins at marker None, see NewProcess).
C3_RestartAfterExhaustion ==
  /\ \A k \in DOMAIN containers : ~Exhausted(containers[k])
  /\ (last.sawExh /\ last.cr /\ ~last.force) => last.nstarted = 1

\* C4: a listing of a container holds every leaf whose create returned
\* success and no leaf whose unlink returned success, when that was the
\* last successful create or unlink of the leaf before the listing was
\* requested and no forced refresh came in between.
C4_ListingReflectsCreateUnlink ==
  Listing =>
    \A k \in DOMAIN last.preWant :
      k[1] = ParseContainer(last.path) =>
        /\ last.preWant[k] = "in" => k[2] \in DOMAIN last.rlist
        /\ last.preWant[k] = "out" => k[2] \notin DOMAIN last.rlist

\* C5: a getattr of a file path that misses the listing at most 30 seconds
\* after the last failed property fetch for the path fails with ENOENT
\* without a fetch; one that misses the listing later than that fetches.
C5_NegativeTTL ==
  (FileGetattr /\ last.preFail >= 0 /\ (last.fetched \/ last.rc = "ENOENT")) =>
    /\ last.tend - last.preFail <= NEG_TTL => (~last.fetched /\ last.rc = "ENOENT")
    /\ last.tend - last.preFail > NEG_TTL => last.fetched

\* C6: when getattr returns a node for a file path, the negative cache
\* has no entry for the path.
C6_NoNegativeEntryForNode ==
  (FileGetattr /\ last.rc = "OK") => ~last.negHeld

\* C7: a listing of a container holds no name that stands for a blob whose
\* key contains a path separator.
C7_OnlyTopLevelBlobs ==
  Listing => \A n \in DOMAIN last.rlist : Find(last.rlist[n].src, SEP, 0) = 0 - 1

\* C8: every read of the registry a call makes goes to the same registry:
\* the one from before a rebuild or the rebuilt one (rebuild_container_list
\* binds self.containers to a complete map in one assignment).
C8_OneRegistryPerCall ==
  /\ ~last.mixed
  /\ \A t \in Threads : ~thr[t].mixed
  /\ Root \in DOMAIN containers

\* C9: _get_dir, called by getattr or readdir for a container that is not
\* in the registry, ends the call with ENOENT and leaves the registry
\* unchanged.
C9_UnknownContainerENOENT ==
  [][\A t \in Threads :
       (/\ Moves(t)
        /\ thr[t].pc = "gd"
        /\ thr[t].op \in {"getattr", "readdir"}
        /\ CKey(ParseContainer(thr[t].gpath)) \notin DOMAIN containers)
         => (last'.rc = "ENOENT" /\ containers' = containers)]_vars

\* C10: mkdir of a top-level name shorter than 3 or longer than 63
\* characters fails with ENAMETOOLONG, and of a name of valid length with
\* two consecutive dashes with EAGAIN; neither calls the store or changes
\* the registry.
C10_MkdirNameChecks ==
  [][\A t \in Threads :
       LET name == From(thr[t].path, 1)
           short == ~(MIN_NAME <= Len(name) /\ Len(name) <= MAX_NAME)
           dashes == ~short /\ CountDashes(name, 1) > 0
       IN  (/\ Moves(t)
            /\ thr[t].pc = "mk"
            /\ Count(thr[t].path, SEP) <= 1
            /\ short \/ dashes)
             => /\ short => last'.rc = "ENAMETOOLONG"
                /\ dashes => last'.rc = "EAGAIN"
                /\ ~last'.remote
                /\ rcont' = rcont
                /\ containers' = containers]_vars

\* a step that dispatches a call which returns at once
Immediate == ncalls' # ncalls /\ thr' = thr

\* C11: write fails with EPERM, whatever the path, and leaves the registry,
\* the listings, the negative cache and self.fd as they are.
C11_WriteEPERM ==
  [][(Immediate /\ last'.op = "write")
       => /\ last'.rc = "EPERM"
          /\ UNCHANGED <<containers, mdict, noent, fd>>]_vars

\* C12: read returns the bytes when get_blob succeeds, fails with ENOENT
\* when the store reports not-found, with a permission error (EPERM or
\* EACCES) when it reports a permission error and with EAGAIN on any other
\* remote error.
C12_ReadErrno ==
  last.op = "read" =>
    /\ last.rout = "ok" => last.rc = "OK"
    /\ last.rout = "missing" => last.rc = "ENOENT"
    /\ last.rout = "denied" => last.rc \in {"EPERM", "EACCES"}
    /\ last.rout = "error" => last.rc = "EAGAIN"

\* C13: a call of create or open that returns a handle returns one greater
\* than every handle returned before.
C13_HandlesIncrease ==
  [][\A t \in Threads :
       (Moves(t) /\ thr[t].pc = "fdret") => last'.rfh > last.maxfh]_vars

\* C14: every call that was dispatched returns (its thread is free again),
\* whether or not a Populator takes a step meanwhile, and a process is joined (and its handle dropped
\* from the entry) only when it has ended.
C14_NoWaitForPopulator ==
  /\ \A t \in Threads : []<>(thr[t].pc = "done")
  /\ [][\A k \in (DOMAIN containers) \cap (DOMAIN containers') :
          (containers[k].process >= 1 /\ containers'[k].process = NoneRef)
            => procs[containers[k].process].st = "exited"]_vars

\* all calls of the run have returned and a Populator that was started has
\* not taken a single step
C14_Witness ==
  /\ ncalls = sc.calls
  /\ sc.load = WaitLoad
  /\ \A t \in Threads : thr[t].pc = "done"
  /\ \E p \in 1..Len(procs) : procs[p] = NewProcess(procs[p].cname)

\* C15: an unlink whose remote delete succeeded returns success and leaves
\* the container's listing without the leaf; one whose delete was answered
\* not-found fails with ENOENT; one whose delete failed otherwise fails with
\* EAGAIN and changes no listing.
C15_UnlinkOutcome ==
  [][\A t \in Threads :
       (Moves(t) /\ thr[t].op = "unlink" /\ thr'[t].pc = "done") =>
         /\ last'.rout = "ok" =>
              /\ last'.rc = "OK"
              /\ \A k \in DOMAIN containers' :
                   (k = CKey(ParseContainer(last'.path)) /\ containers'[k].files >= 1)
                     => ParseLeaf(last'.path) \notin DOMAIN mdict'[containers'[k].files]
         /\ last'.rout = "missing" => last'.rc = "ENOENT"
         /\ last'.rout = "error" => last'.rc = "EAGAIN" /\ mdict' = mdict]_vars

\* C16: every Populator process that was started ends; it ends with the
\* page that has no continuation marker or at its 5th failed listing call,
\* and then at once; the count of attempts left never goes up; and no entry
\* of its listing disappears.
C16_PopulatorTerminates ==
  /\ \A p \in 1..MaxProcs : []<>(p \in 1..Len(procs) => procs[p].st = "exited")
  /\ [][\A p \in 1..Len(procs) :
          /\ procs'[p].attempts <= procs[p].attempts
          /\ procs'[p].attempts = 0 => procs'[p].st = "exited"
          /\ (procs[p].st # "exited" /\ procs'[p].st = "exited") =>
               \/ procs[p].st = "write" /\ procs[p].next = 0
               \/ procs[p].attempts = 1 /\ procs'[p].attempts = 0
          /\ \A x \in DOMAIN mdict[p] : x \in DOMAIN mdict'[p]]_vars

\* a process that wrote the first page and then used up its attempts
C16_Witness ==
  \E p \in 1..Len(procs) :
    /\ procs[p].st = "exited"
    /\ procs[p].attempts = 0
    /\ procs[p].marker > 0
    /\ Kf \in DOMAIN mdict[p]

\* C17: a Populator process that has ended with attempts left holds, in its
\* dict, a node for every blob directly under the container that a page
\* returned, with the size the page gave; and a failed listing call leaves
\* the marker where it was, so that the same page is requested again.
C17_ListingComplete ==
  /\ [](\A p \in 1..Len(procs) :
          (procs[p].st = "exited" /\ procs[p].attempts > 0) =>
            \A b \in procs[p].seen :
              Find(b.name, SEP, 0) = 0 - 1 =>
                /\ b.name \in DOMAIN mdict[p]
                /\ mdict[p][b.name].st_size = b.size)
  /\ [][\A p \in 1..Len(procs) :
          procs'[p].attempts < procs[p].attempts =>
            procs'[p].marker = procs[p].marker]_vars

\* a process that ended with attempts left after a failure on the second
\* page, having been given both blobs
C17_Witness ==
  \E p \in 1..Len(procs) :
    /\ procs[p].st = "exited"
    /\ procs[p].attempts \in 1..(ATTEMPTS - 1)
    /\ {b.name : b \in procs[p].seen} = BlobKeys
    /\ Kf \in DOMAIN mdict[p]

\* C18: whenever a Populator process is running for a container or recorded
\* in its entry, the entry's files field is the dict that process writes.
C18_FilesAttachedFirst ==
  /\ \A k \in DOMAIN containers :
       containers[k].process >= 1 => containers[k].files = containers[k].process
  /\ \A p \in Running :
       CKey(procs[p].cname) \in DOMAIN containers =>
         containers[CKey(procs[p].cname)].files = p

\* C19: a forced refresh (create of the reserved leaf) that finds no
\* Populator of the container running starts exactly one process, returns a
\* handle and stores no entry for the reserved name; one that finds a
\* Populator of the container running starts none (and so attaches no new
\* listing).
C19_ForcedRefresh ==
  (last.op = "create" /\ last.force /\ last.known) =>
    /\ last.rc = "OK" /\ last.rfh >= 1
    /\ \A p \in 1..Len(mdict) : RefreshLeaf \notin DOMAIN mdict[p]
    /\ last.quiet => last.nstarted = 1
    /\ ~last.quiet => last.nstarted = 0

\* C20: the _get_dir step of a getattr of a container path that is in the
\* registry returns the call with the entry's stat; it starts no process
\* and changes no listing, no files field and not the negative cache.
C20_ContainerStat ==
  [][\A t \in Threads :
       (/\ Moves(t)
        /\ thr[t].op = "getattr" /\ thr[t].pc = "gd"
        /\ ParseLeaf(thr[t].path) = <<>>
        /\ thr[t].path \in DOMAIN containers) =>
         /\ thr'[t].pc = "done"
         /\ last'.rc = "OK" /\ last'.rsize = 0 /\ last'.nstarted = 0
         /\ procs' = procs /\ mdict' = mdict /\ noent' = noent
         /\ \A k \in DOMAIN containers : containers'[k].files = containers[k].files]_vars

\* a getattr of a container in the registry has returned its stat while
\* the container's listing is unknown and no process was ever started
C20_Witness ==
  /\ sc.load = StatLoad
  /\ last.op = "getattr" /\ last.path = CKey(Cabc) /\ last.rc = "OK"
  /\ containers[CKey(Cabc)].files = NoneRef
  /\ procs = <<>>

====
